---- MODULE Spec2Model ----
(***************************************************************************)
(* Levenberg-Marquardt curve fitting: the controller levenbergMarquardt of *)
(* src/src/index.js, statement by statement, with its two helpers          *)
(* alignedFunction and getLinearParams.  The imported errorCalculation and *)
(* step are not part of index.js; they are modelled from the design text.  *)
(***************************************************************************)
EXTENDS Integers, Sequences, FiniteSets, TLC

(***************************************************************************)
(* JavaScript numbers.  A number is a record [k, n, d]:                    *)
(*   k = "fin"  : the rational n/d, d > 0, in lowest terms                 *)
(*   k = "nan"  : NaN                                                      *)
(*   k = "inf"  : +Infinity (n = 1) or -Infinity (n = -1)                  *)
(*   k = "safe" : Number.MAX_SAFE_INTEGER (n = 1) or MIN_SAFE_INTEGER      *)
(*                (n = -1), 2^53 - 1 in magnitude; every "fin" value of    *)
(*                the model lies strictly between the two                  *)
(*   k = "huge" : a finite number beyond the safe integers, 2^60 (n = 1)   *)
(*                or -2^60 (n = -1)                                        *)
(*   k = "big"  : a finite number of the sign n and of magnitude at least  *)
(*                2^52, above every "fin" value of the model, its value    *)
(*                not tracked: what arithmetic on "safe" and "huge" gives  *)
(*   k = "sqrt" : the non-negative square root of the rational n/d, or,    *)
(*                with d = 0, of a positive "big" number                   *)
(* Arithmetic is exact where floating point rounds.                        *)
(***************************************************************************)
Abs(i) == IF i < 0 THEN -i ELSE i

Sign(i) == IF i < 0 THEN -1 ELSE IF i > 0 THEN 1 ELSE 0

RECURSIVE Gcd(_, _)
Gcd(a, b) == IF b = 0 THEN a ELSE Gcd(b, a % b)

NaN == [k |-> "nan", n |-> 0, d |-> 0]

Infinity(s) == [k |-> "inf", n |-> s, d |-> 0]

Fin(n, d) ==
  LET s == IF d < 0 THEN -1 ELSE 1
      g == Gcd(Abs(n), Abs(d))
  IN  [k |-> "fin", n |-> (s * n) \div g, d |-> (s * d) \div g]

Num(i) == [k |-> "fin", n |-> i, d |-> 1]

MAX_SAFE_INTEGER == [k |-> "safe", n |-> 1, d |-> 0]

MIN_SAFE_INTEGER == [k |-> "safe", n |-> -1, d |-> 0]

Huge(s) == [k |-> "huge", n |-> s, d |-> 0]

Big(s) == [k |-> "big", n |-> s, d |-> 0]

\* A number of one of the three kinds beyond the "fin" values.
Large(v) == v.k \in {"safe", "huge", "big"}

\* The result of an operation the model does not track: the quotient of or
\* by a Large number, the sum of two Large numbers of opposite sign.  It
\* has no value: TLC stops when one is formed.
Untracked == CHOOSE v \in {} : TRUE

\* isNaN(v)
isNaN(v) == v.k = "nan"

isFinite(v) == v.k = "fin" \/ Large(v)

\* The sign of a number that is not NaN.
SignOf(v) == Sign(v.n)

\* a + b with a Large: b is zero, or a "fin" that leaves the sum beyond
\* 2^52, or a Large number.
AddLarge(a, b) ==
  IF b.k = "fin" THEN (IF b.n = 0 THEN a ELSE Big(a.n))
  ELSE IF a.n = b.n THEN Big(a.n)
  ELSE IF a.k = b.k /\ a.k # "big" THEN Num(0)
  ELSE Untracked

\* a + b
Add(a, b) ==
  IF isNaN(a) \/ isNaN(b) THEN NaN
  ELSE IF a.k = "inf" /\ b.k = "inf" THEN (IF a.n = b.n THEN a ELSE NaN)
  ELSE IF a.k = "inf" THEN a
  ELSE IF b.k = "inf" THEN b
  ELSE IF Large(a) THEN AddLarge(a, b)
  ELSE IF Large(b) THEN AddLarge(b, a)
  ELSE Fin(a.n * b.d + b.n * a.d, a.d * b.d)

\* -a
Neg(a) == IF isNaN(a) THEN NaN ELSE [a EXCEPT !.n = -a.n]

\* a - b
Sub(a, b) == Add(a, Neg(b))

\* a * b with a Large: b is zero, one, minus one, or any other number that
\* leaves the product beyond 2^52 (an integer, or a Large number).
MulLarge(a, b) ==
  IF b = Num(0) THEN Num(0)
  ELSE IF b = Num(1) THEN a
  ELSE IF b = Num(-1) THEN [a EXCEPT !.n = -a.n]
  ELSE IF Large(b) \/ b.d = 1 THEN Big(SignOf(a) * SignOf(b))
  ELSE Untracked

\* a * b
Mul(a, b) ==
  IF isNaN(a) \/ isNaN(b) THEN NaN
  ELSE IF a.k = "inf" \/ b.k = "inf"
    THEN (IF SignOf(a) * SignOf(b) = 0
            THEN NaN
            ELSE Infinity(SignOf(a) * SignOf(b)))
  ELSE IF Large(a) THEN MulLarge(a, b)
  ELSE IF Large(b) THEN MulLarge(b, a)
  ELSE Fin(a.n * b.n, a.d * b.d)

\* a / b; a zero divisor is +0, as the difference of two equal numbers is.
Div(a, b) ==
  IF isNaN(a) \/ isNaN(b) THEN NaN
  ELSE IF a.k = "inf"
    THEN (IF b.k = "inf" THEN NaN
          ELSE Infinity(IF SignOf(b) < 0 THEN -a.n ELSE a.n))
  ELSE IF b.k = "inf" THEN Num(0)
  ELSE IF Large(a) \/ Large(b) THEN Untracked
  ELSE IF b.n = 0
    THEN (IF a.n = 0 THEN NaN ELSE Infinity(Sign(a.n)))
  ELSE Fin(a.n * b.d, a.d * b.n)

\* Where a number stands among the kinds:
\* -inf < -huge < -safe < fin < safe < huge < inf.
Rank(v) ==
  IF v.k = "inf" THEN 3 * v.n
  ELSE IF v.k = "huge" THEN 2 * v.n
  ELSE IF v.k = "safe" THEN v.n
  ELSE 0

\* a <= b; false when either is NaN.  A "sqrt" may stand on the left, a
\* "big" on neither side; the root of a "big" number, at least 2^26, is
\* above every "fin" it is compared with.
Leq(a, b) ==
  IF isNaN(a) \/ isNaN(b) THEN FALSE
  ELSE IF a.k = "big" \/ b.k = "big" THEN Untracked
  ELSE IF a.k = "sqrt"
    THEN (IF b.k = "fin"
            THEN b.n >= 0 /\ a.n * b.d * b.d <= b.n * b.n * a.d
            ELSE b.n > 0)
  ELSE IF Rank(a) # Rank(b) THEN Rank(a) < Rank(b)
  ELSE IF a.k = "fin" THEN a.n * b.d <= b.n * a.d
  ELSE TRUE

\* Math.max(a, b) and Math.min(a, b): NaN when either argument is NaN.
MathMax(a, b) ==
  IF isNaN(a) \/ isNaN(b) THEN NaN ELSE IF Leq(a, b) THEN b ELSE a

MathMin(a, b) ==
  IF isNaN(a) \/ isNaN(b) THEN NaN ELSE IF Leq(a, b) THEN a ELSE b

\* Math.min.apply(null, arr) and Math.max.apply(null, arr), arr not empty.
RECURSIVE ArrayMin(_)
ArrayMin(arr) ==
  IF Len(arr) = 1 THEN arr[1] ELSE MathMin(arr[1], ArrayMin(Tail(arr)))

RECURSIVE ArrayMax(_)
ArrayMax(arr) ==
  IF Len(arr) = 1 THEN arr[1] ELSE MathMax(arr[1], ArrayMax(Tail(arr)))

\* Math.sqrt of a sum of squares.
Sqrt(v) ==
  IF isNaN(v) THEN NaN
  ELSE IF v.k = "inf" THEN (IF v.n > 0 THEN v ELSE NaN)
  ELSE IF v.n < 0 THEN NaN
  ELSE IF v.k = "big" THEN [k |-> "sqrt", n |-> 1, d |-> 0]
  ELSE IF Large(v) THEN Untracked
  ELSE [k |-> "sqrt", n |-> v.n, d |-> v.d]

\* arr[k] of a JavaScript array, 0-based k: a missing element is undefined,
\* which every numeric operation reads as NaN.
At(arr, k) == IF k + 1 \in DOMAIN arr THEN arr[k + 1] ELSE NaN

(***************************************************************************)
(* Other JavaScript values a caller may pass where an array is expected.   *)
(* A value is a record [t, a, s]: t its type, a the elements of an array   *)
(* (numbers), s the value of a number or boolean, or the length of a       *)
(* string.                                                                 *)
(***************************************************************************)
Undefined == [t |-> "undefined", a |-> << >>, s |-> 0]

JsArray(elems) == [t |-> "array", a |-> elems, s |-> 0]

JsNumber(i) == [t |-> "number", a |-> << >>, s |-> i]

JsString(len) == [t |-> "string", a |-> << >>, s |-> len]

JsBoolean(b) == [t |-> "boolean", a |-> << >>, s |-> IF b THEN 1 ELSE 0]

JsObject == [t |-> "object", a |-> << >>, s |-> 0]

\* ToBoolean(v), as the tests !v and v || w apply it.
Truthy(v) ==
  CASE v.t = "undefined" -> FALSE
    [] v.t = "number"    -> v.s # 0
    [] v.t = "string"    -> v.s > 0
    [] v.t = "boolean"   -> v.s = 1
    [] OTHER             -> TRUE

\* Array.isArray(v)
isArray(v) == v.t = "array"

\* The value a local holds before its first assignment, and a length that
\* is undefined (v.length of a value that has no such property).
Unset == [k |-> "unset", n |-> 0, d |-> 0]

NoLength == -1

\* v.length
length(v) ==
  CASE v.t = "array"  -> Len(v.a)
    [] v.t = "string" -> v.s
    [] OTHER          -> NoLength

\* new Array(len).fill(v): an array of len copies of v; new Array(undefined)
\* is the one-element array [undefined], which fill turns into [v].
NewArrayFill(len, v) ==
  JsArray([i \in 1..(IF len = NoLength THEN 1 ELSE len) |-> v])

(***************************************************************************)
(* The model functions a caller fits.  parameterizedFunction(p) returns    *)
(* the function of x; length is Function.length, the number of declared    *)
(* arguments.                                                              *)
(*   "prop"  : ([a]) => (x) => a * x                                       *)
(*   "recip" : ([a]) => (x) => x / a                                       *)
(*   "line"  : (p, unused) => (x) => p[0] * x + p[1]                       *)
(***************************************************************************)
Prop == [name |-> "prop", length |-> 1]

Recip == [name |-> "recip", length |-> 1]

Line == [name |-> "line", length |-> 2]

\* f(p)(x), p an array of numbers.
Apply(f, p, x) ==
  CASE f.name = "prop"  -> Mul(At(p, 0), x)
    [] f.name = "recip" -> Div(x, At(p, 0))
    [] f.name = "line"  -> Add(Mul(At(p, 0), x), At(p, 1))

(***************************************************************************)
(* getLinearParams and alignedFunction.  A function handed to step and to  *)
(* errorCalculation is a record [f, aligned, params]: the caller's f, or   *)
(* the closure res of alignedFunction over f and params.                   *)
(***************************************************************************)
\* getLinearParams with b taken at funMin instead of funMax.
getLinearParamsAtFunMin(dMin, dMax, funMin, funMax) ==
  LET a == Div(Sub(dMin, dMax), Sub(funMin, funMax))
      b == Sub(dMax, Mul(a, funMin))
  IN  <<a, b>>

\* Lines 129-133.
getLinearParams(dMin, dMax, funMin, funMax) ==
  LET a == Div(Sub(dMin, dMax), Sub(funMin, funMax))
      b == Sub(dMax, Mul(a, funMax))
  IN  <<a, b>>

\* The caller's function itself, not wrapped.
Plain(f) == [f |-> f, aligned |-> FALSE, params |-> <<Num(1), Num(0)>>]

alignedFunction(f, dMin, dMax, toAlign) ==
  LET funMin == ArrayMin(toAlign)
      funMax == ArrayMax(toAlign)
  IN  [f |-> f, aligned |-> TRUE,
       params |-> getLinearParams(dMin, dMax, funMin, funMax)]

\* fun(paramsToFit)(x)
Call(fun, paramsToFit, x) ==
  LET originalRes == Apply(fun.f, paramsToFit, x)
  IN  IF fun.aligned
        THEN Add(Mul(fun.params[1], originalRes), fun.params[2])
        ELSE originalRes

(***************************************************************************)
(* errorCalculation (ResidualEvaluator): the square root of the sum of the *)
(* squared residuals y_i - fun(parameters)(x_i); NaN when the model        *)
(* evaluates to NaN or an infinity at any sample.                          *)
(***************************************************************************)
RECURSIVE SumSquares(_)
SumSquares(r) ==
  IF r = << >> THEN Num(0)
  ELSE Add(Mul(r[1], r[1]), SumSquares(Tail(r)))

errorCalculation(dat, params, fun) ==
  LET pred == [i \in DOMAIN dat.x.a |-> Call(fun, params, dat.x.a[i])]
      res  == [i \in DOMAIN dat.x.a |-> Sub(dat.y.a[i], pred[i])]
  IN  IF \E i \in DOMAIN pred : ~isFinite(pred[i])
        THEN NaN
        ELSE Sqrt(SumSquares(res))

(***************************************************************************)
(* step (DampedStepSolver): one damped update parameters + delta, a fresh  *)
(* vector of the length of parameters whose elements are numbers or, when  *)
(* the solve fails, NaN.  The linear algebra is not modelled: step may     *)
(* return any vector over StepValues.                                      *)
(***************************************************************************)
StepMax == 2

StepValues == {Num(i) : i \in -1..StepMax} \cup {NaN}

\* Finite numbers beyond the safe integers.  The model lets step return
\* them for the caller's own proportional function, whose error at them
\* the arithmetic above can evaluate.
BeyondSafe == {Huge(1), Huge(-1)}

step(dat, params, damp, gradDiff, fun) ==
  [1..Len(params) ->
     IF fun = Plain(Prop) THEN StepValues \cup BeyondSafe ELSE StepValues]

(***************************************************************************)
(* The calls.  options is the caller's object: given names the properties  *)
(* it has, the other fields hold their values.                             *)
(***************************************************************************)
MaxIter == 2

Options(given, maxIt, damp, tol, minV, maxV, initV, align, log) ==
  [given |-> given, maxIterations |-> maxIt, damping |-> damp,
   gradientDifference |-> Fin(1, 100), errorTolerance |-> tol,
   minValues |-> minV, maxValues |-> maxV, initialValues |-> initV,
   alignToData |-> align, logAfterIteration |-> log]

Arr1(a) == JsArray(<<Num(a)>>)

Arr2(a, b) == JsArray(<<Num(a), Num(b)>>)

Arr3(a, b, c) == JsArray(<<Num(a), Num(b), Num(c)>>)

\* Two data sets a fit accepts.
DataA == [x |-> Arr2(0, 1), y |-> Arr2(0, 2)]

DataB == [x |-> Arr2(1, 2), y |-> Arr2(3, 1)]

\* Data the validation refuses: x or y missing, not an array, shorter than
\* two elements, or of different lengths.
BadData ==
  { [x |-> Undefined, y |-> Arr2(0, 2)],
    [x |-> Arr2(0, 1), y |-> Undefined],
    [x |-> JsString(2), y |-> Arr2(0, 2)],
    [x |-> Arr2(0, 1), y |-> JsObject],
    [x |-> Arr1(1), y |-> Arr2(0, 2)],
    [x |-> Arr2(0, 1), y |-> Arr1(2)],
    [x |-> JsArray(<< >>), y |-> JsArray(<< >>)],
    [x |-> Arr3(0, 1, 2), y |-> Arr2(0, 2)] }

\* Calls that differ in damping and in the shape of data, everything else
\* left to its default (among them the default maxIterations).
ValidationCalls ==
  { [data |-> dat, parameterizedFunction |-> Prop,
     options |-> Options(g, 0, damp, Num(0), Undefined, Undefined, Undefined,
                         FALSE, FALSE)] :
      dat \in BadData \cup {DataA},
      g \in {{}, {"damping"}, {"damping", "gradientDifference"}},
      damp \in {Num(-1), Num(0), Num(1), Fin(1, 100)} }

\* Calls that differ in what is passed as initialValues, minValues and
\* maxValues.
ShapeCalls ==
  { [data |-> DataA, parameterizedFunction |-> f,
     options |-> Options({"damping", "maxIterations"}, maxIt, Num(1), Num(0),
                         minV, maxV, initV, FALSE, FALSE)] :
      f \in {Prop, Line},
      maxIt \in {0, 1},
      minV \in {Undefined, Arr1(0), Arr2(0, 0)},
      maxV \in {Undefined, Arr1(1), Arr2(1, 1)},
      initV \in {Undefined, Arr1(2), Arr2(2, 0), JsNumber(0), JsNumber(5),
                 JsString(0), JsString(2), JsBoolean(FALSE), JsBoolean(TRUE),
                 JsObject} }

\* Fits of a one-parameter model.
FitCalls1 ==
  { [data |-> dat, parameterizedFunction |-> f,
     options |-> Options({"damping", "maxIterations"} \cup g, maxIt,
                         Num(1), Num(1), b[1], b[2], initV, align, log)] :
      dat \in {DataA, DataB},
      f \in {Prop, Recip},
      g \in {{}, {"errorTolerance"}},
      maxIt \in 0..MaxIter,
      b \in {<<Undefined, Undefined>>, <<Arr1(0), Arr1(1)>>,
             <<Arr1(1), Arr1(0)>>},
      initV \in {Undefined, Arr1(0), Arr1(2)},
      align \in BOOLEAN,
      log \in BOOLEAN }

\* Fits of the two-parameter model.
FitCalls2 ==
  { [data |-> DataA, parameterizedFunction |-> Line,
     options |-> Options({"damping", "maxIterations"}, maxIt,
                         Num(1), Num(0), b[1], b[2], initV, align, log)] :
      maxIt \in {0, MaxIter},
      b \in {<<Undefined, Undefined>>, <<Arr2(0, 0), Arr2(1, 1)>>,
             <<Arr1(0), Arr1(1)>>},
      initV \in {Undefined, Arr2(0, 0), Arr2(2, 0)},
      align \in BOOLEAN,
      log \in BOOLEAN }

\* Fits whose maxIterations is negative.
NegativeCapCalls ==
  { [data |-> dat, parameterizedFunction |-> Prop,
     options |-> Options({"damping", "maxIterations"} \cup g, -1,
                         Num(1), Num(1), Undefined, Undefined, initV, align,
                         log)] :
      dat \in {DataA, DataB},
      g \in {{}, {"errorTolerance"}},
      initV \in {Undefined, Arr1(2)},
      align \in BOOLEAN,
      log \in BOOLEAN }

Calls ==
  ValidationCalls \cup ShapeCalls \cup FitCalls1 \cup FitCalls2
    \cup NegativeCapCalls

(***************************************************************************)
(* The state of one call of levenbergMarquardt.                            *)
(***************************************************************************)
VARIABLES
  data, parameterizedFunction, options,   \* the arguments
  maxIterations, gradientDifference, damping, errorTolerance,
  minValues, maxValues, initialValues, alignToData, logAfterIteration,
  dataMin, dataMax, parameters, parLen, error, converged, iteration,
  alignedFun,
  pc,          \* the statement about to run
  thrown,      \* the message of the Error thrown, "" when none
  result,      \* the object returned
  console,     \* what console.log has printed, in order
  stepCalls,   \* how many times step was called
  errorCalls,  \* how many times errorCalculation was called
  alignCalls,  \* how many times alignedFunction was called
  modelCalls,  \* how many times parameterizedFunction was called directly
  startParams,  \* the elements of parameters when the current iteration began
  stepFun,      \* the function handed to step in its last call
  stepped,      \* the vector step returned last, as returned
  errorFun,     \* the function handed to errorCalculation in its last call
  parametersIs  \* the array parameters refers to: the caller's
                \* "initialValues", the "default" of line 56, or the one
                \* "step" returned

args == <<data, parameterizedFunction, options>>

locals == <<maxIterations, gradientDifference, damping, errorTolerance,
            alignToData, logAfterIteration, initialValues>>

vars == <<data, parameterizedFunction, options, maxIterations,
          gradientDifference, damping, errorTolerance, minValues, maxValues,
          initialValues, alignToData, logAfterIteration, dataMin, dataMax,
          parameters, parLen, error, converged, iteration, alignedFun, pc,
          thrown, result, console, stepCalls, errorCalls, alignCalls,
          modelCalls, startParams, stepFun, stepped, errorFun, parametersIs>>

\* What the call has handed to step and to errorCalculation, and got back.
handed == <<startParams, stepFun, stepped, errorFun>>

DefaultMaxIterations == 100

\* The value destructuring gives the local name: the property when the
\* object has it, the default otherwise.
Destructure(opts, name, default) ==
  IF name \in opts.given THEN opts[name] ELSE default

\* No function handed over yet.
NoFunction ==
  [f |-> [name |-> "none", length |-> 0], aligned |-> FALSE,
   params |-> <<Num(1), Num(0)>>]

NoResult ==
  [parameterValues |-> Undefined, parameterError |-> Unset, iterations |-> 0]

\* Entry into the function and the destructuring of options.
Init ==
  \E call \in Calls :
    /\ data = call.data
    /\ parameterizedFunction = call.parameterizedFunction
    /\ options = call.options
    /\ maxIterations =
         Destructure(call.options, "maxIterations", DefaultMaxIterations)
    /\ gradientDifference =
         Destructure(call.options, "gradientDifference", Fin(10, 100))
    /\ damping = Destructure(call.options, "damping", Num(0))
    /\ errorTolerance =
         Destructure(call.options, "errorTolerance", Fin(10, 1000))
    /\ minValues = call.options.minValues
    /\ maxValues = call.options.maxValues
    /\ initialValues = call.options.initialValues
    /\ alignToData = call.options.alignToData
    /\ logAfterIteration = call.options.logAfterIteration
    /\ dataMin = Unset
    /\ dataMax = Unset
    /\ parameters = Undefined
    /\ parLen = NoLength
    /\ error = Unset
    /\ converged = FALSE
    /\ iteration = 0
    /\ alignedFun = Plain(call.parameterizedFunction)
    /\ pc = "validate"
    /\ thrown = ""
    /\ result = NoResult
    /\ console = << >>
    /\ stepCalls = 0
    /\ errorCalls = 0
    /\ alignCalls = 0
    /\ modelCalls = 0
    /\ startParams = << >>
    /\ stepFun = NoFunction
    /\ stepped = << >>
    /\ errorFun = NoFunction
    /\ parametersIs = "none"

(***************************************************************************)
(* The statements of levenbergMarquardt, one action each.                  *)
(***************************************************************************)
\* throw new Error(message): the call ends without a result.
Throw(message) ==
  /\ pc' = "thrown"
  /\ thrown' = message

\* ValidationError with the damping test written damping < 0.
ValidationErrorStrictDamping(damp, dat) ==
  IF ~Leq(Num(0), damp)
    THEN "The damping option must be a positive number"
  ELSE IF ~Truthy(dat.x) \/ ~Truthy(dat.y)
    THEN "The data parameter must have x and y elements"
  ELSE IF \/ ~isArray(dat.x)
          \/ length(dat.x) < 2
          \/ ~isArray(dat.y)
          \/ length(dat.y) < 2
    THEN "The data parameter elements must be an array with more than 2 points"
  ELSE IF length(dat.x) # length(dat.y)
    THEN "The data parameter elements must have the same size"
  ELSE ""

\* The message of the first validation test of lines 35-50 that fails, ""
\* when all pass.
ValidationError(damp, dat) ==
  IF Leq(damp, Num(0))
    THEN "The damping option must be a positive number"
  ELSE IF ~Truthy(dat.x) \/ ~Truthy(dat.y)
    THEN "The data parameter must have x and y elements"
  ELSE IF \/ ~isArray(dat.x)
          \/ length(dat.x) < 2
          \/ ~isArray(dat.y)
          \/ length(dat.y) < 2
    THEN "The data parameter elements must be an array with more than 2 points"
  ELSE IF length(dat.x) # length(dat.y)
    THEN "The data parameter elements must have the same size"
  ELSE ""

\* Lines 35-50.
Validate ==
  /\ pc = "validate"
  /\ IF ValidationError(damping, data) # ""
       THEN Throw(ValidationError(damping, data))
       ELSE pc' = "defaults" /\ thrown' = thrown
  /\ UNCHANGED <<args, locals, handed, parametersIs, minValues, maxValues,
                 dataMin, dataMax, parameters, parLen, error, converged,
                 iteration, alignedFun, result, console, stepCalls, errorCalls,
                 alignCalls, modelCalls>>

\* initialValues || new Array(parameterizedFunction.length).fill(1)
StartingParameters(initV, f) ==
  IF Truthy(initV) THEN initV ELSE NewArrayFill(f.length, Num(1))

\* bound || new Array(len).fill(extreme)
BoundOrDefault(bound, len, extreme) ==
  IF Truthy(bound) THEN bound ELSE NewArrayFill(len, extreme)

\* Lines 52-59.
Defaults ==
  /\ pc = "defaults"
  /\ dataMin' = ArrayMin(data.y.a)
  /\ dataMax' = ArrayMax(data.y.a)
  /\ parameters' = StartingParameters(initialValues, parameterizedFunction)
  /\ parLen' = length(parameters')
  /\ maxValues' = BoundOrDefault(maxValues, parLen', MAX_SAFE_INTEGER)
  /\ minValues' = BoundOrDefault(minValues, parLen', MIN_SAFE_INTEGER)
  /\ pc' = "checkSizes"
  /\ parametersIs' = IF Truthy(initialValues) THEN "initialValues" ELSE "default"
  /\ UNCHANGED <<args, locals, handed, error, converged, iteration, alignedFun,
                 thrown, result, console, stepCalls, errorCalls, alignCalls,
                 modelCalls>>

\* SizeError with maxValues compared with the parameters instead of with
\* minValues.
SizeErrorAgainstParameters(minV, maxV, params) ==
  IF length(maxV) # length(params)
    THEN "minValues and maxValues must be the same size"
  ELSE IF ~isArray(params)
    THEN "initialValues must be an array"
  ELSE ""

\* The message of the first test of lines 61-67 that fails, "" when both
\* pass.
SizeError(minV, maxV, params) ==
  IF length(maxV) # length(minV)
    THEN "minValues and maxValues must be the same size"
  ELSE IF ~isArray(params)
    THEN "initialValues must be an array"
  ELSE ""

\* Lines 61-67.
CheckSizes ==
  /\ pc = "checkSizes"
  /\ IF SizeError(minValues, maxValues, parameters) # ""
       THEN Throw(SizeError(minValues, maxValues, parameters))
       ELSE pc' = "initialError" /\ thrown' = thrown
  /\ UNCHANGED <<args, locals, handed, parametersIs, minValues, maxValues,
                 dataMin, dataMax, parameters, parLen, error, converged,
                 iteration, alignedFun, result, console, stepCalls, errorCalls,
                 alignCalls, modelCalls>>

\* InitialError without the comparison of line 71.
InitialErrorNotCompared ==
  /\ pc = "initialError"
  /\ error' = errorCalculation(data, parameters.a, Plain(parameterizedFunction))
  /\ errorCalls' = errorCalls + 1
  /\ converged' = FALSE
  /\ iteration' = 0
  /\ pc' = "loopTest"
  /\ errorFun' = Plain(parameterizedFunction)
  /\ UNCHANGED <<args, locals, startParams, stepFun, stepped, parametersIs,
                 minValues, maxValues, dataMin, dataMax, parameters, parLen,
                 alignedFun, thrown, result, console, stepCalls, alignCalls,
                 modelCalls>>

\* Lines 69-74: the error of the starting parameters, and the loop's
\* initialisation.
InitialError ==
  /\ pc = "initialError"
  /\ error' = errorCalculation(data, parameters.a, Plain(parameterizedFunction))
  /\ errorCalls' = errorCalls + 1
  /\ converged' = Leq(error', errorTolerance)
  /\ iteration' = 0
  /\ pc' = "loopTest"
  /\ errorFun' = Plain(parameterizedFunction)
  /\ UNCHANGED <<args, locals, startParams, stepFun, stepped, parametersIs,
                 minValues, maxValues, dataMin, dataMax, parameters, parLen,
                 alignedFun, thrown, result, console, stepCalls, alignCalls,
                 modelCalls>>

\* LoopCondition with <= for <, and LoopCondition without !converged.
LoopConditionInclusive(it, maxIt, conv) == it <= maxIt /\ ~conv

LoopConditionNoConverged(it, maxIt, conv) == it < maxIt

\* Line 75: iteration < maxIterations && !converged
LoopCondition(it, maxIt, conv) == it < maxIt /\ ~conv

LoopTest ==
  /\ pc = "loopTest"
  /\ pc' = IF LoopCondition(iteration, maxIterations, converged)
             THEN "align" ELSE "return"
  /\ UNCHANGED <<args, locals, handed, parametersIs, minValues, maxValues,
                 dataMin, dataMax, parameters, parLen, error, converged,
                 iteration, alignedFun, thrown, result, console, stepCalls,
                 errorCalls, alignCalls, modelCalls>>

\* Align keeping, from the second iteration on, the alignment of the first.
AlignOnce ==
  /\ pc = "align"
  /\ IF alignToData /\ iteration = 0
       THEN LET toAlign == [i \in DOMAIN data.x.a |->
                              Apply(parameterizedFunction, parameters.a,
                                    data.x.a[i])]
            IN  /\ alignedFun' = alignedFunction(parameterizedFunction,
                                                 dataMin, dataMax, toAlign)
                /\ modelCalls' = modelCalls + 1
                /\ alignCalls' = alignCalls + 1
       ELSE /\ alignedFun' = IF alignToData THEN alignedFun
                                            ELSE Plain(parameterizedFunction)
            /\ UNCHANGED <<modelCalls, alignCalls>>
  /\ startParams' = parameters.a
  /\ pc' = "step"
  /\ UNCHANGED <<args, locals, stepFun, stepped, errorFun, parametersIs,
                 minValues, maxValues, dataMin, dataMax, parameters, parLen,
                 error, converged, iteration, thrown, result, console,
                 stepCalls, errorCalls>>

\* Lines 79-83: the function this iteration fits.
Align ==
  /\ pc = "align"
  /\ IF alignToData
       THEN LET toAlign == [i \in DOMAIN data.x.a |->
                              Apply(parameterizedFunction, parameters.a,
                                    data.x.a[i])]
            IN  /\ alignedFun' = alignedFunction(parameterizedFunction,
                                                 dataMin, dataMax, toAlign)
                /\ modelCalls' = modelCalls + 1
                /\ alignCalls' = alignCalls + 1
       ELSE /\ alignedFun' = Plain(parameterizedFunction)
            /\ UNCHANGED <<modelCalls, alignCalls>>
  /\ pc' = "step"
  /\ startParams' = parameters.a
  /\ UNCHANGED <<args, locals, stepFun, stepped, errorFun, parametersIs,
                 minValues, maxValues, dataMin, dataMax, parameters, parLen,
                 error, converged, iteration, thrown, result, console,
                 stepCalls, errorCalls>>

\* Step with the result of step copied into the array parameters refers to,
\* in place of line 85's assignment of the returned array.
StepIntoParameters ==
  /\ pc = "step"
  /\ \E v \in step(data, parameters.a, damping, gradientDifference, alignedFun) :
       /\ parameters' = JsArray(v)
       /\ stepped' = v
       /\ IF parametersIs = "initialValues"
            THEN /\ initialValues' = JsArray(v)
                 /\ options' = [options EXCEPT !.initialValues = JsArray(v)]
            ELSE UNCHANGED <<initialValues, options>>
  /\ stepFun' = alignedFun
  /\ stepCalls' = stepCalls + 1
  /\ pc' = "clamp"
  /\ UNCHANGED <<data, parameterizedFunction, maxIterations,
                 gradientDifference, damping, errorTolerance, alignToData,
                 logAfterIteration, startParams, errorFun, parametersIs,
                 minValues, maxValues, dataMin, dataMax, parLen, error,
                 converged, iteration, alignedFun, thrown, result, console,
                 errorCalls, alignCalls, modelCalls>>

\* Lines 85-91.
Step ==
  /\ pc = "step"
  /\ \E v \in step(data, parameters.a, damping, gradientDifference, alignedFun) :
       /\ parameters' = JsArray(v)
       /\ stepped' = v
  /\ stepFun' = alignedFun
  /\ parametersIs' = "step"
  /\ stepCalls' = stepCalls + 1
  /\ pc' = "clamp"
  /\ UNCHANGED <<args, locals, startParams, errorFun, minValues, maxValues,
                 dataMin, dataMax, parLen, error, converged, iteration,
                 alignedFun, thrown, result, console, errorCalls, alignCalls,
                 modelCalls>>

\* Math.min(Math.max(minValues[k], parameters[k]), maxValues[k])
ClampOne(lo, v, hi) == MathMin(MathMax(lo, v), hi)

\* Lines 93-98: elements 0 .. len - 1 of params clamped in place; an
\* assignment past the end of the array extends it.
Clamped(params, minV, maxV, len) ==
  [i \in 1..(IF len > Len(params) THEN len ELSE Len(params)) |->
     IF i <= len
       THEN ClampOne(At(minV, i - 1), At(params, i - 1), At(maxV, i - 1))
       ELSE params[i]]

Clamp ==
  /\ pc = "clamp"
  /\ parameters' = JsArray(Clamped(parameters.a, minValues.a, maxValues.a, parLen))
  /\ IF parametersIs = "initialValues"
       THEN /\ initialValues' = parameters'
            /\ options' = [options EXCEPT !.initialValues = parameters']
       ELSE UNCHANGED <<initialValues, options>>
  /\ pc' = "recompute"
  /\ UNCHANGED <<data, parameterizedFunction, maxIterations,
                 gradientDifference, damping, errorTolerance, alignToData,
                 logAfterIteration, handed, parametersIs, minValues, maxValues,
                 dataMin, dataMax, parLen, error, converged, iteration,
                 alignedFun, thrown, result, console, stepCalls, errorCalls,
                 alignCalls, modelCalls>>

\* Recompute without the break of line 101.
RecomputeNoBreak ==
  /\ pc = "recompute"
  /\ error' = errorCalculation(data, parameters.a, alignedFun)
  /\ errorCalls' = errorCalls + 1
  /\ pc' = "log"
  /\ errorFun' = alignedFun
  /\ UNCHANGED <<args, locals, startParams, stepFun, stepped, parametersIs,
                 minValues, maxValues, dataMin, dataMax, parameters, parLen,
                 converged, iteration, alignedFun, thrown, result, console,
                 stepCalls, alignCalls, modelCalls>>

\* Recompute with the break of line 101 taken whatever the error.
RecomputeAlwaysBreaks ==
  /\ pc = "recompute"
  /\ error' = errorCalculation(data, parameters.a, alignedFun)
  /\ errorCalls' = errorCalls + 1
  /\ pc' = "return"
  /\ errorFun' = alignedFun
  /\ UNCHANGED <<args, locals, startParams, stepFun, stepped, parametersIs,
                 minValues, maxValues, dataMin, dataMax, parameters, parLen,
                 converged, iteration, alignedFun, thrown, result, console,
                 stepCalls, alignCalls, modelCalls>>

\* Recompute on the vector as step returned it, before the clamp.
RecomputeUnclamped ==
  /\ pc = "recompute"
  /\ error' = errorCalculation(data, stepped, alignedFun)
  /\ errorCalls' = errorCalls + 1
  /\ pc' = IF isNaN(error') THEN "return" ELSE "log"
  /\ errorFun' = alignedFun
  /\ UNCHANGED <<args, locals, startParams, stepFun, stepped, parametersIs,
                 minValues, maxValues, dataMin, dataMax, parameters, parLen,
                 converged, iteration, alignedFun, thrown, result, console,
                 stepCalls, alignCalls, modelCalls>>

\* Lines 100-101: the error of the clamped parameters; NaN leaves the loop.
Recompute ==
  /\ pc = "recompute"
  /\ error' = errorCalculation(data, parameters.a, alignedFun)
  /\ errorCalls' = errorCalls + 1
  /\ pc' = IF isNaN(error') THEN "return" ELSE "log"
  /\ errorFun' = alignedFun
  /\ UNCHANGED <<args, locals, startParams, stepFun, stepped, parametersIs,
                 minValues, maxValues, dataMin, dataMax, parameters, parLen,
                 converged, iteration, alignedFun, thrown, result, console,
                 stepCalls, alignCalls, modelCalls>>

\* Log without the test of logAfterIteration.
LogUnconditional ==
  /\ pc = "log"
  /\ console' = Append(console, [error |-> error, parameters |-> parameters.a])
  /\ pc' = "converged"
  /\ UNCHANGED <<args, locals, handed, parametersIs, minValues, maxValues,
                 dataMin, dataMax, parameters, parLen, error, converged,
                 iteration, alignedFun, thrown, result, stepCalls, errorCalls,
                 alignCalls, modelCalls>>

\* Lines 102-104: console.log of the error and the parameters.
Log ==
  /\ pc = "log"
  /\ console' = IF logAfterIteration
                  THEN Append(console, [error |-> error,
                                        parameters |-> parameters.a])
                  ELSE console
  /\ pc' = "converged"
  /\ UNCHANGED <<args, locals, handed, parametersIs, minValues, maxValues,
                 dataMin, dataMax, parameters, parLen, error, converged,
                 iteration, alignedFun, thrown, result, stepCalls, errorCalls,
                 alignCalls, modelCalls>>

\* Converged without the iteration++ of line 76.
ConvergedWithoutIncrement ==
  /\ pc = "converged"
  /\ converged' = Leq(error, errorTolerance)
  /\ pc' = "loopTest"
  /\ UNCHANGED <<args, locals, handed, parametersIs, minValues, maxValues,
                 dataMin, dataMax, parameters, parLen, error, iteration,
                 alignedFun, thrown, result, console, stepCalls, errorCalls,
                 alignCalls, modelCalls>>

\* Line 105, then the loop's iteration++ of line 76.
Converged ==
  /\ pc = "converged"
  /\ converged' = Leq(error, errorTolerance)
  /\ iteration' = iteration + 1
  /\ pc' = "loopTest"
  /\ UNCHANGED <<args, locals, handed, parametersIs, minValues, maxValues,
                 dataMin, dataMax, parameters, parLen, error, alignedFun,
                 thrown, result, console, stepCalls, errorCalls, alignCalls,
                 modelCalls>>

\* The object of lines 108-112.
FitResult(params, err, it) ==
  [parameterValues |-> params, parameterError |-> err, iterations |-> it]

Return ==
  /\ pc = "return"
  /\ result' = FitResult(parameters, error, iteration)
  /\ pc' = "done"
  /\ UNCHANGED <<args, locals, handed, parametersIs, minValues, maxValues,
                 dataMin, dataMax, parameters, parLen, error, converged,
                 iteration, alignedFun, thrown, console, stepCalls, errorCalls,
                 alignCalls, modelCalls>>

Next ==
  \/ Validate
  \/ Defaults
  \/ CheckSizes
  \/ InitialError
  \/ LoopTest
  \/ Align
  \/ Step
  \/ Clamp
  \/ Recompute
  \/ Log
  \/ Converged
  \/ Return

Spec == Init /\ [][Next]_vars

(***************************************************************************)
(* Properties.                                                             *)
(***************************************************************************)
\* The call has returned an object.
Returned == pc = "done"

\* minV[i] <= params[i] <= maxV[i] for every element of params.
WithinBounds(params, minV, maxV) ==
  \A i \in DOMAIN params :
    /\ Leq(At(minV, i - 1), params[i])
    /\ Leq(params[i], At(maxV, i - 1))

\* C1: every element of the returned parameterValues lies between its
\* minValues and maxValues element, whatever the terminal state, and so does
\* every element of parameters right after the clamp of lines 93-98.
C1_ParametersWithinBounds ==
  /\ Returned =>
       WithinBounds(result.parameterValues.a, minValues.a, maxValues.a)
  /\ pc = "recompute" =>
       WithinBounds(parameters.a, minValues.a, maxValues.a)

\* C2, as stated: the returned iterations never exceeds maxIterations,
\* whatever maxIterations is.
C2_IterationsNeverExceedAnyCap ==
  Returned => result.iterations <= maxIterations

\* C2, amended: when maxIterations is a non-negative integer the returned
\* iterations never exceeds it, and neither does the loop counter at any
\* point of the call.
C2_IterationsWithinCap ==
  maxIterations >= 0 =>
    /\ iteration <= maxIterations
    /\ Returned => result.iterations <= maxIterations

\* A fit that stopped because it used up a positive maxIterations.
C2_Witness ==
  /\ Returned
  /\ maxIterations > 0
  /\ result.iterations = maxIterations
  /\ ~converged

\* The error of the current parameters was found within the tolerance at the
\* end of an iteration (or before the first), and the loop has not yet
\* been left.
ErrorWithinTolerance ==
  /\ pc \in {"log", "converged", "loopTest", "return"}
  /\ Leq(error, errorTolerance)

\* C3: once the error computed at the end of an iteration is <=
\* errorTolerance, every later statement of the call leaves the parameters
\* and the error as they are and calls neither step nor errorCalculation nor
\* alignedFunction; the loop is left, and the object returned holds those
\* parameters, that error and the number of that iteration.
C3_StopsWhenConverged ==
  [][ErrorWithinTolerance =>
        /\ parameters' = parameters
        /\ error' = error
        /\ stepCalls' = stepCalls
        /\ errorCalls' = errorCalls
        /\ alignCalls' = alignCalls
        /\ pc' \in {"converged", "loopTest", "return", "done"}
        /\ pc' = "done" =>
             result' = FitResult(parameters, error, stepCalls)]_vars

\* A fit that converged after at least one iteration and before the cap.
C3_Witness ==
  /\ Returned
  /\ result.iterations > 0
  /\ result.iterations < maxIterations
  /\ Leq(result.parameterError, errorTolerance)

\* The starting parameter vector of the call and its error, from the
\* arguments alone.
StartVector == StartingParameters(options.initialValues, parameterizedFunction)

StartError == errorCalculation(data, StartVector.a, Plain(parameterizedFunction))

\* The statements after the validation of lines 35-67.
PastValidation ==
  pc \in {"initialError", "loopTest", "align", "step", "clamp", "recompute",
          "log", "converged", "return", "done"}

\* C4: when the error of the starting vector is <= errorTolerance, step and
\* alignedFunction are never called, and the call returns the starting
\* vector, its error and iterations = 0.
C4_ConvergedAtStart ==
  (PastValidation /\ Leq(StartError, errorTolerance)) =>
    /\ stepCalls = 0
    /\ alignCalls = 0
    /\ pc \in {"initialError", "loopTest", "return", "done"}
    /\ Returned => result = FitResult(StartVector, StartError, 0)

\* Such a call, with alignToData set and iterations allowed, has returned.
C4_Witness ==
  /\ Returned
  /\ Leq(StartError, errorTolerance)
  /\ alignToData
  /\ maxIterations > 0
  /\ Leq(Num(0), damping) /\ damping # Num(0)

\* The calls C5 is about, from the arguments alone.
DampingRefused ==
  "damping" \notin options.given \/ Leq(options.damping, Num(0))

DataRefused ==
  \/ data.x.t = "undefined"
  \/ data.y.t = "undefined"
  \/ data.x.t # "array"
  \/ data.y.t # "array"
  \/ Len(data.x.a) < 2
  \/ Len(data.y.a) < 2
  \/ Len(data.x.a) # Len(data.y.a)

\* C5: a call with damping missing or <= 0, or with data.x or data.y
\* missing, not an array, shorter than 2 or of different lengths, throws in
\* the validation: nothing is returned, and the model, errorCalculation and
\* step are never called.
C5_ValidationRefuses ==
  (DampingRefused \/ DataRefused) =>
    /\ pc \in {"validate", "thrown"}
    /\ pc = "thrown" => thrown # ""
    /\ result = NoResult
    /\ stepCalls = 0
    /\ errorCalls = 0
    /\ modelCalls = 0
    /\ alignCalls = 0

\* A call with a positive damping and arrays of lengths 3 and 2 has thrown.
C5_Witness ==
  /\ pc = "thrown"
  /\ ~DampingRefused
  /\ Len(data.x.a) = 3
  /\ Len(data.y.a) = 2
  /\ thrown = "The data parameter elements must have the same size"

\* C6: a call that passes the validation of damping and data and whose
\* initialValues is present and not an array throws before the model is
\* evaluated: it never reaches errorCalculation and returns nothing.
C6_NonArrayInitialValuesRefused ==
  (/\ ~DampingRefused
   /\ ~DataRefused
   /\ options.initialValues.t \notin {"undefined", "array"}) =>
    /\ pc \in {"validate", "defaults", "checkSizes", "thrown"}
    /\ errorCalls = 0
    /\ stepCalls = 0
    /\ result = NoResult

\* The length of a bound in effect: its own when supplied, the length of
\* the starting vector when not.
EffectiveLength(bound) ==
  IF bound.t = "array" THEN Len(bound.a) ELSE Len(StartVector.a)

\* C7: a call that passes the validation of damping and data, starts from
\* an array (given or default) and whose minValues and maxValues in effect
\* differ in length throws "minValues and maxValues must be the same size"
\* before any iteration.
C7_UnequalBoundsRefused ==
  (/\ ~DampingRefused
   /\ ~DataRefused
   /\ options.initialValues.t \in {"undefined", "array"}
   /\ options.minValues.t \in {"undefined", "array"}
   /\ options.maxValues.t \in {"undefined", "array"}
   /\ EffectiveLength(options.minValues) # EffectiveLength(options.maxValues)) =>
    /\ pc \in {"validate", "defaults", "checkSizes", "thrown"}
    /\ pc = "thrown" =>
         thrown = "minValues and maxValues must be the same size"
    /\ errorCalls = 0
    /\ stepCalls = 0
    /\ result = NoResult

\* A call that supplied only minValues, longer than the starting vector,
\* has thrown.
C7_Witness ==
  /\ pc = "thrown"
  /\ thrown = "minValues and maxValues must be the same size"
  /\ options.minValues.t = "array"
  /\ options.maxValues.t = "undefined"
  /\ Len(options.minValues.a) # Len(StartVector.a)

\* The error recomputed in the current iteration is NaN.
RecomputedNaN ==
  /\ stepCalls > 0
  /\ errorCalls = stepCalls + 1
  /\ isNaN(error)

\* C8: when the error recomputed in an iteration is NaN the loop is left at
\* once and nothing is thrown; the object returned holds the parameters that
\* produced the NaN (their error under the function of that iteration is
\* NaN), the NaN error, and the loop counter as it stood, which is the
\* number of iterations completed before.
C8_NaNStopsAndIsReturned ==
  RecomputedNaN =>
    /\ pc \in {"return", "done"}
    /\ thrown = ""
    /\ iteration = stepCalls - 1
    /\ Returned =>
         /\ result = FitResult(parameters, NaN, iteration)
         /\ isNaN(errorCalculation(data, result.parameterValues.a, alignedFun))

\* A fit that diverged in its second iteration, from parameters whose error
\* was a number.
C8_Witness ==
  /\ Returned
  /\ RecomputedNaN
  /\ result.iterations = 1
  /\ \A i \in DOMAIN result.parameterValues.a :
       ~isNaN(result.parameterValues.a[i])

\* C9: in every terminal state the returned iterations is the number of
\* times step was called and its clamped result assigned to parameters.
C9_IterationsCountSteps ==
  Returned => result.iterations = stepCalls

\* C10: with logAfterIteration set, console.log has run once for each
\* iteration counted (never before the first step, never more often than
\* step), each line holds parameters that the clamp leaves as they are and,
\* without alignment, their error; the line printed last holds the error
\* and the parameters of the iteration just completed; at return the number
\* of lines is the returned iterations.  Without logAfterIteration nothing
\* is printed.
C10_LogsEachCompletedIteration ==
  /\ ~logAfterIteration => console = << >>
  /\ logAfterIteration =>
       /\ Len(console) = IF pc = "converged" THEN iteration + 1 ELSE iteration
       /\ Len(console) <= stepCalls
       /\ \A j \in DOMAIN console :
            /\ console[j].parameters =
                 Clamped(console[j].parameters, minValues.a, maxValues.a, parLen)
            /\ ~alignToData =>
                 console[j].error =
                   errorCalculation(data, console[j].parameters,
                                    Plain(parameterizedFunction))
       /\ (pc \in {"converged", "loopTest"} /\ console # << >>) =>
            console[Len(console)] =
              [error |-> error, parameters |-> parameters.a]
       /\ Returned => Len(console) = result.iterations

\* A fit that logged two iterations with different parameters and returned.
C10_Witness ==
  /\ Returned
  /\ logAfterIteration
  /\ Len(console) = 2
  /\ console[1].parameters # console[2].parameters
  /\ result.iterations = 2

(***************************************************************************)
(* C11.  The iteration's function, right after line 82 built it.           *)
(***************************************************************************)
\* The outputs of the caller's function at the current parameters, the
\* toAlign of line 81.
OutputsAt(params) ==
  [i \in DOMAIN data.x.a |-> Apply(parameterizedFunction, params, data.x.a[i])]

\* alignedFunction was just called, on outputs whose least and greatest are
\* two different finite numbers.
AdapterInvoked ==
  /\ pc = "step"
  /\ alignToData
  /\ isFinite(ArrayMin(OutputsAt(parameters.a)))
  /\ isFinite(ArrayMax(OutputsAt(parameters.a)))
  /\ ArrayMin(OutputsAt(parameters.a)) # ArrayMax(OutputsAt(parameters.a))

\* C11: in every iteration that calls alignedFunction on outputs with
\* funMin # funMax, the pair [a, b] of getLinearParams sends funMin to
\* dataMin and funMax to dataMax, and the function handed on evaluates to
\* a * f(p)(x) + b at every parameter vector p the step may return and every
\* sample x.
C11_AlignmentMapsRangeOntoData ==
  AdapterInvoked =>
    LET funMin == ArrayMin(OutputsAt(parameters.a))
        funMax == ArrayMax(OutputsAt(parameters.a))
        a == alignedFun.params[1]
        b == alignedFun.params[2]
    IN  /\ alignedFun.aligned
        /\ alignedFun.f = parameterizedFunction
        /\ Add(Mul(a, funMin), b) = dataMin
        /\ Add(Mul(a, funMax), b) = dataMax
        /\ \A p \in step(data, parameters.a, damping, gradientDifference,
                         alignedFun) \cup {parameters.a} :
             \A i \in DOMAIN data.x.a :
               Call(alignedFun, p, data.x.a[i]) =
                 Add(Mul(a, Apply(parameterizedFunction, p, data.x.a[i])), b)

\* A second iteration whose alignment is neither the identity nor a pure
\* scaling.
C11_Witness ==
  /\ AdapterInvoked
  /\ iteration >= 1
  /\ alignedFun.params[1] # Num(1)
  /\ alignedFun.params[2] # Num(0)

(***************************************************************************)
(* C12.  levenbergMarquardt is one synchronous function: control does not  *)
(* rest at a statement that has been reached, the calls of the model, of   *)
(* step and of errorCalculation returning.  Every action of Next moves pc, *)
(* and one is enabled wherever pc is not Ended, so the weak fairness of    *)
(* Next is the weak fairness of Proceed.                                   *)
(***************************************************************************)
Positions ==
  {"validate", "defaults", "checkSizes", "initialError", "loopTest", "align",
   "step", "clamp", "recompute", "log", "converged", "return", "done",
   "thrown"}

Ended == {"done", "thrown"}

Proceed ==
  /\ pc \notin Ended
  /\ pc' \in Positions

FairSpec == Spec /\ WF_pc(Proceed)

\* The iterations the loop may run: maxIterations, none when it is negative.
IterationCap == IF maxIterations > 0 THEN maxIterations ELSE 0

\* C12: every call that passes validation returns a result, and the loop
\* body runs at most maxIterations times, also when the error never comes
\* within errorTolerance and never is NaN.
C12_ValidatedCallsReturn ==
  /\ [](stepCalls <= IterationCap)
  /\ (pc = "initialError") ~> Returned

\* A fit that ran the default 100 iterations without once converging or
\* meeting NaN, and returned.
C12_Witness ==
  /\ Returned
  /\ maxIterations = DefaultMaxIterations
  /\ result.iterations = DefaultMaxIterations
  /\ stepCalls = DefaultMaxIterations
  /\ ~isNaN(result.parameterError)
  /\ ~Leq(result.parameterError, errorTolerance)

(***************************************************************************)
(* C13.  What a returned object tells about why the fit stopped.           *)
(***************************************************************************)
\* The returned error is a number above errorTolerance.
ReturnedAboveTolerance ==
  /\ Returned
  /\ ~isNaN(result.parameterError)
  /\ ~Leq(result.parameterError, errorTolerance)

\* C13: every returned result has a NaN parameterError, or a parameterError
\* <= errorTolerance, or iterations equal to maxIterations.
C13_ReturnedInOneOfThreeStates ==
  ReturnedAboveTolerance => result.iterations = maxIterations

\* C13, amended: a returned result whose parameterError is a number above
\* errorTolerance has iterations >= maxIterations, never below it, and
\* iterations = maxIterations when maxIterations is a non-negative integer;
\* with a negative maxIterations such a result has iterations = 0.
C13_ReturnedOnlyWhenStopped ==
  ReturnedAboveTolerance =>
    /\ result.iterations >= maxIterations
    /\ maxIterations >= 0 => result.iterations = maxIterations
    /\ maxIterations < 0 => result.iterations = 0

\* A fit with alignment that used up its iterations with a numeric error
\* above the tolerance.
C13_Witness ==
  /\ ReturnedAboveTolerance
  /\ alignToData
  /\ maxIterations = MaxIter
  /\ result.iterations = MaxIter

(***************************************************************************)
(* C14.  Which function an iteration hands to step and to                  *)
(* errorCalculation.                                                       *)
(***************************************************************************)
\* Between line 85 and the end of the loop body: the iteration has built
\* its function.
InIteration == pc \in {"step", "clamp", "recompute", "log", "converged"}

\* The alignment of line 82 for an iteration that began at params.
AlignmentAt(params) ==
  alignedFunction(parameterizedFunction, dataMin, dataMax, OutputsAt(params))

\* C14: with alignToData every iteration calls alignedFunction once, on the
\* outputs of the caller's function at the parameters the iteration began
\* with (those step is then called on), and hands the function it got to
\* step and to the errorCalculation of that iteration; without alignToData
\* alignedFunction is never called and both are handed the caller's own
\* function.
C14_AlignmentPerIteration ==
  /\ pc = "step" => startParams = parameters.a
  /\ (alignToData /\ InIteration) =>
       /\ alignedFun = AlignmentAt(startParams)
       /\ alignCalls = iteration + 1
       /\ modelCalls = alignCalls
  /\ (~alignToData /\ InIteration) => alignedFun = Plain(parameterizedFunction)
  /\ ~alignToData => alignCalls = 0 /\ modelCalls = 0
  /\ pc \in {"clamp", "recompute", "log", "converged"} => stepFun = alignedFun
  /\ (stepCalls > 0 /\ pc \notin {"clamp", "recompute"}) =>
       /\ errorFun = stepFun
       /\ errorCalls = stepCalls + 1

\* A second iteration whose alignment differs from that of the first, the
\* error of its step result just computed with it.
C14_Witness ==
  /\ alignToData
  /\ pc = "log"
  /\ iteration = 1
  /\ stepFun = AlignmentAt(startParams)
  /\ stepFun # AlignmentAt(StartVector.a)
  /\ errorFun = stepFun
  /\ startParams # parameters.a

(***************************************************************************)
(* C15.  The clamp under the default bounds of lines 58-59.                *)
(***************************************************************************)
\* The caller gave neither minValues nor maxValues.
BoundsUnspecified ==
  /\ options.minValues = Undefined
  /\ options.maxValues = Undefined

\* C15: when minValues and maxValues are unspecified, the clamp of lines
\* 93-98 leaves every finite element of the vector step returned as it is.
C15_DefaultBoundsLeaveFiniteValues ==
  (BoundsUnspecified /\ pc = "recompute") =>
    \A i \in DOMAIN stepped :
      isFinite(stepped[i]) => parameters.a[i] = stepped[i]

(***************************************************************************)
(* C16.  The error and the parameters it was computed for.                 *)
(***************************************************************************)
\* C16: at the loop test of every iteration and at the return, error is
\* errorCalculation of the data, the parameters as they stand (clamped) and
\* the function the last evaluation was handed; the object returned holds
\* that error and those parameters, and without alignToData the function is
\* the caller's own.
C16_ErrorBelongsToParameters ==
  /\ pc \in {"loopTest", "return", "done"} =>
       error = errorCalculation(data, parameters.a, errorFun)
  /\ Returned =>
       /\ result.parameterError =
            errorCalculation(data, result.parameterValues.a, errorFun)
       /\ ~alignToData =>
            result.parameterError =
              errorCalculation(data, result.parameterValues.a,
                               Plain(parameterizedFunction))

\* A returned fit whose last step result the clamp changed, the error of
\* the clamped vector differing from that of the vector step returned.
C16_Witness ==
  /\ Returned
  /\ stepCalls > 0
  /\ stepped # result.parameterValues.a
  /\ ~isNaN(result.parameterError)
  /\ result.parameterError # errorCalculation(data, stepped, errorFun)

(***************************************************************************)
(* C17.  What the call writes.  options holds the caller's object and,     *)
(* in it, the caller's minValues, maxValues and initialValues arrays.      *)
(***************************************************************************)
\* C17: no statement of the call, returning or throwing, changes data or
\* the options object with its minValues, maxValues and initialValues; the
\* clamp is reached only with parameters referring to the array step
\* returned; and a call that returns without an iteration returns the
\* caller's initialValues array itself when one was given.
C17_InputsUnchanged ==
  [][/\ data' = data
     /\ options' = options
     /\ pc' = "clamp" => parametersIs' = "step"
     /\ (pc' = "done" /\ stepCalls' = 0 /\ Truthy(options.initialValues)) =>
          /\ parametersIs' = "initialValues"
          /\ result'.parameterValues = options'.initialValues]_vars

\* A returned fit that started from the caller's initialValues and whose
\* clamp changed the vector of its last step.
C17_Witness ==
  /\ Returned
  /\ Truthy(options.initialValues)
  /\ stepCalls > 0
  /\ parametersIs = "step"
  /\ stepped # result.parameterValues.a
  /\ result.parameterValues # options.initialValues

====
